---- MODULE Spec2Model ----
(***************************************************************************)
(* Model of combine_fold_results.py: the per-fold results combiner.        *)
(*                                                                         *)
(* A results file is a sequence of lines, a line a sequence of tokens (the *)
(* pieces between single spaces).  A token is a record: kind "num" (text   *)
(* float() accepts, val is the number), kind "text" (text float() rejects) *)
(* or kind "hash" (the start of a comment).  Numbers are integers; a mean  *)
(* is the exact fraction [sum, n].                                         *)
(***************************************************************************)
EXTENDS Integers, Sequences, FiniteSets, TLC

VARIABLES
    pc,             \* position of the run: "start", "read", "combine", "exit"
    args,           \* parsed command line (parse_args)
    disk,           \* the files under the prefix: path -> lines
    results_files,  \* fold -> role -> path (get_results_files)
    pending,        \* folds whose files are still to be read, in loop order
    acc,            \* the per-fold lists and pooled lists of __main__
    nextcall,       \* which of the four combine call sites comes next (1..5)
    calls,          \* the combine_fold_results invocations made so far
    outputs,        \* the tables and plots written so far, in order
    exitcode,       \* -1 while running, then the process's exit status
    input,          \* argument of the function under test (function-level specs)
    result          \* its return value

vars == <<pc, args, disk, results_files, pending, acc, nextcall, calls, outputs,
          exitcode, input, result>>

pipevars == <<args, disk, results_files, pending, acc, nextcall, calls, outputs, exitcode>>

----------------------------------------------------------------------------
(* Bounds *)

\* folds are numbered 0..MaxFold
MaxFold == 1
\* checkpoints (rows) of an 'out' file
MaxLen == 2
\* read_results_file specification: lines per file, tokens per line
MaxLines == 2
MaxFields == 2

----------------------------------------------------------------------------
(* Generic helpers *)

Range(s) == {s[i] : i \in 1..Len(s)}

RECURSIVE SumSeq(_)
SumSeq(s) == IF s = <<>> THEN 0 ELSE Head(s) + SumSeq(Tail(s))

RECURSIVE Flatten(_)
Flatten(ss) == IF ss = <<>> THEN <<>> ELSE Head(ss) \o Flatten(Tail(ss))

MinOf(S) == CHOOSE x \in S : \A y \in S : x <= y
MaxOf(S) == CHOOSE x \in S : \A y \in S : x >= y

\* Sequence of the elements of a finite set of integers, ascending.
RECURSIVE Ascending(_)
Ascending(S) == IF S = {} THEN <<>> ELSE <<MinOf(S)>> \o Ascending(S \ {MinOf(S)})

SeqsUpTo(S, n) == UNION {[1..k -> S] : k \in 0..n}

----------------------------------------------------------------------------
(* Tokens *)

Num(v) == [kind |-> "num", val |-> v]
Text == [kind |-> "text", val |-> 0]
Hash == [kind |-> "hash", val |-> 0]

NumLine(vs) == [i \in 1..Len(vs) |-> Num(vs[i])]

----------------------------------------------------------------------------
(* read_results_file *)

\* line.split('#', 1)[0].strip(): the tokens before the first comment mark
RECURSIVE StripComment(_)
StripComment(line) ==
    IF line = <<>> \/ Head(line).kind = "hash" THEN <<>>
    ELSE <<Head(line)>> \o StripComment(Tail(line))

\* the lines that survive "if line:", comment stripped
RECURSIVE DataLines(_)
DataLines(lines) ==
    IF lines = <<>> THEN <<>>
    ELSE LET l == StripComment(Head(lines))
         IN  (IF l = <<>> THEN <<>> ELSE <<l>>) \o DataLines(Tail(lines))

\* float() raises ValueError on a token that is not a number
FloatFails(line) == \E i \in 1..Len(line) : line[i].kind # "num"

\* map(float, line.split(' '))
Floats(line) == [i \in 1..Len(line) |-> line[i].val]

\* zip(*rows): as many columns as the shortest row has fields
Transpose(rows, width) == [j \in 1..width |-> [i \in 1..Len(rows) |-> rows[i][j]]]

ZipRows(rows) ==
    IF rows = <<>> THEN <<>>
    ELSE Transpose(rows, MinOf({Len(rows[i]) : i \in 1..Len(rows)}))

\* lines 15-19 on the data lines: [err |-> TRUE] for the ValueError, else the columns
ParseRows(data) ==
    IF \E i \in 1..Len(data) : FloatFails(data[i])
    THEN [err |-> TRUE, cols |-> <<>>]
    ELSE [err |-> FALSE, cols |-> ZipRows([i \in 1..Len(data) |-> Floats(data[i])])]

\* lines 11-19
read_results_file(lines) == ParseRows(DataLines(lines))

----------------------------------------------------------------------------
(* Paths and roles.  A path '<prefix>.<fold>.<suffix>' is the record        *)
(* [fold, suffix]; the prefix is the same for every file of a run.          *)

Path(i, suffix) == [fold |-> i, suffix |-> suffix]

\* the alternatives of the pattern (out|(auc|rmsd)\.final(test|train)2?)
PatternSuffixes ==
    {"out"} \cup
    {"auc.finaltest", "auc.finaltrain", "rmsd.finaltest", "rmsd.finaltrain"} \cup
    {"auc.finaltest2", "auc.finaltrain2", "rmsd.finaltest2", "rmsd.finaltrain2"}

\* os.path.isfile
FileExists(d, path) == path \in DOMAIN d

\* foldnums argument: None, or the comma-separated tokens of the string
NoFoldnums == [none |-> TRUE, toks |-> <<>>]
Foldnums(toks) == [none |-> FALSE, toks |-> toks]
Empty == [kind |-> "empty", val |-> 0]

\* glob(prefix + '*') filtered by re.match(pattern, file): the fold numbers found
DiscoverFolds(d) == {p.fold : p \in {q \in DOMAIN d : q.suffix \in PatternSuffixes}}

\* [int(i) for i in foldnums.split(',') if i]
ExplicitFolds(toks) == {toks[k].val : k \in {j \in 1..Len(toks) : toks[j].kind # "empty"}}

\* int() raises ValueError on a token that is not an integer
IntFails(toks) == \E k \in 1..Len(toks) : toks[k].kind = "text"

EmptyFn == [x \in {} |-> 0]

When(cond, f) == IF cond THEN f ELSE EmptyFn

\* FileSet with a copy-and-paste slip: the second source's test role keeps the first
\* source's path
FileSetPasted(i, binary_class, affinity, two_data_sources) ==
    ("out" :> Path(i, "out"))
    @@ When(binary_class,
            ("auc_finaltest" :> Path(i, "auc.finaltest"))
            @@ ("auc_finaltrain" :> Path(i, "auc.finaltrain")))
    @@ When(affinity,
            ("rmsd_finaltest" :> Path(i, "rmsd.finaltest"))
            @@ ("rmsd_finaltrain" :> Path(i, "rmsd.finaltrain")))
    @@ When(two_data_sources /\ binary_class,
            ("auc_finaltest2" :> Path(i, "auc.finaltest2"))
            @@ ("auc_finaltrain2" :> Path(i, "auc.finaltrain2")))
    @@ When(two_data_sources /\ affinity,
            ("rmsd_finaltest2" :> Path(i, "rmsd.finaltest"))
            @@ ("rmsd_finaltrain2" :> Path(i, "rmsd.finaltrain2")))

\* lines 92-106: the roles of one fold and the path of each
FileSet(i, binary_class, affinity, two_data_sources) ==
    ("out" :> Path(i, "out"))
    @@ When(binary_class,
            ("auc_finaltest" :> Path(i, "auc.finaltest"))
            @@ ("auc_finaltrain" :> Path(i, "auc.finaltrain")))
    @@ When(affinity,
            ("rmsd_finaltest" :> Path(i, "rmsd.finaltest"))
            @@ ("rmsd_finaltrain" :> Path(i, "rmsd.finaltrain")))
    @@ When(two_data_sources /\ binary_class,
            ("auc_finaltest2" :> Path(i, "auc.finaltest2"))
            @@ ("auc_finaltrain2" :> Path(i, "auc.finaltrain2")))
    @@ When(two_data_sources /\ affinity,
            ("rmsd_finaltest2" :> Path(i, "rmsd.finaltest2"))
            @@ ("rmsd_finaltrain2" :> Path(i, "rmsd.finaltrain2")))

\* lines 107-109: check_file_exists raises OSError for a path that is no file
AllFilesExist(d, files) ==
    \A i \in DOMAIN files : \A role \in DOMAIN files[i] : FileExists(d, files[i][role])

\* CheckedFiles that drops a fold with a missing file instead of raising
CheckedFilesSkipping(d, files) ==
    [err |-> "none",
     files |-> [i \in {j \in DOMAIN files :
                          \A role \in DOMAIN files[j] : FileExists(d, files[j][role])} |->
                   files[i]]]

\* lines 107-110: the files, unless one of them is missing
CheckedFiles(d, files) ==
    IF AllFilesExist(d, files)
    THEN [err |-> "none", files |-> files]
    ELSE [err |-> "OSError", files |-> EmptyFn]

\* lines 82-90: the fold numbers, discovered or parsed from the argument
ResolveFolds(d, foldnums) ==
    IF foldnums.none THEN DiscoverFolds(d) ELSE ExplicitFolds(foldnums.toks)

\* err is "ValueError" (int() of a fold token), "OSError" (a missing file) or "none"
get_results_files(d, foldnums, binary_class, affinity, two_data_sources) ==
    IF ~foldnums.none /\ IntFails(foldnums.toks)
    THEN [err |-> "ValueError", files |-> EmptyFn]
    ELSE CheckedFiles(d, [i \in ResolveFolds(d, foldnums) |->
                             FileSet(i, binary_class, affinity, two_data_sources)])

----------------------------------------------------------------------------
(* __main__: flags, fold location *)

\* lines 203-209
BinaryClass(a) == ~a.affinity_only
Affinity(a) == a.affinity \/ a.affinity_only

\* the empty per-fold and pooled lists of lines 225-236; err marks an exception raised
\* while the lists are filled (never set in a state: the exception ends the run)
EmptyAcc ==
    [err |-> FALSE,
     test_aucs |-> <<>>, train_aucs |-> <<>>, test_rmsds |-> <<>>, train_rmsds |-> <<>>,
     test_y_true |-> <<>>, train_y_true |-> <<>>, test_y_score |-> <<>>, train_y_score |-> <<>>,
     test_y_aff |-> <<>>, train_y_aff |-> <<>>, test_y_predaff |-> <<>>, train_y_predaff |-> <<>>,
     test2_aucs |-> <<>>, train2_aucs |-> <<>>, test2_rmsds |-> <<>>, train2_rmsds |-> <<>>,
     test2_y_true |-> <<>>, train2_y_true |-> <<>>, test2_y_score |-> <<>>, train2_y_score |-> <<>>,
     test2_y_aff |-> <<>>, train2_y_aff |-> <<>>, test2_y_predaff |-> <<>>, train2_y_predaff |-> <<>>]

\* "for i in results_files": a dict of small integer keys iterates in ascending order
DictOrder(files) == Ascending(DOMAIN files)

\* lines 201-219: a failure of get_results_files or an empty fold set ends the run with
\* status 1 (sys.exit(1), or the uncaught ValueError); otherwise the read loop starts
Located(r) ==
    IF r.err # "none" \/ DOMAIN r.files = {}
    THEN /\ pc' = "exit"
         /\ exitcode' = 1
         /\ UNCHANGED <<results_files, pending>>
    ELSE /\ pc' = "read"
         /\ results_files' = r.files
         /\ pending' = DictOrder(r.files)
         /\ UNCHANGED exitcode

Locate ==
    /\ pc = "start"
    /\ Located(get_results_files(disk, args.foldnums, BinaryClass(args), Affinity(args),
                                 args.two_data_sources))
    /\ UNCHANGED <<args, disk, acc, nextcall, calls, outputs, input, result>>

----------------------------------------------------------------------------
(* __main__: the read loop, lines 239-302 *)

\* "a, b = read_results_file(path)": the unpacking needs exactly two columns
Unpack2(r) ==
    IF r.err \/ Len(r.cols) # 2
    THEN [err |-> TRUE, a |-> <<>>, b |-> <<>>]
    ELSE [err |-> FALSE, a |-> r.cols[1], b |-> r.cols[2]]

ReadPair(d, path) == Unpack2(read_results_file(d[path]))

\* one final file read into two pooled lists (list.extend); a failed read poisons the
\* accumulator, which is how the exception ends the loop
Extend2(a, r, first, second) ==
    IF r.err THEN [a EXCEPT !.err = TRUE]
    ELSE [a EXCEPT ![first] = @ \o r.a, ![second] = @ \o r.b]

ExtendPair(a, d, path, first, second) ==
    IF a.err THEN a ELSE Extend2(a, ReadPair(d, path), first, second)

\* out_columns[col_idx] and out_columns[col_idx+1] appended to two per-fold lists;
\* col_idx counts from 0 and an index past the last column raises IndexError
AppendColumns(a, cols, col_idx, first, second) ==
    IF a.err THEN a
    ELSE IF col_idx + 2 > Len(cols) THEN [a EXCEPT !.err = TRUE]
    ELSE [a EXCEPT ![first] = Append(@, cols[col_idx + 1]),
                   ![second] = Append(@, cols[col_idx + 2])]

\* lines 241-272: the final prediction files of fold files rf
ReadFinals(a, d, rf, binary_class, affinity, two_data_sources) ==
    LET a1 == IF binary_class
              THEN ExtendPair(ExtendPair(a, d, rf["auc_finaltest"], "test_y_true", "test_y_score"),
                              d, rf["auc_finaltrain"], "train_y_true", "train_y_score")
              ELSE a
        a2 == IF affinity
              THEN ExtendPair(ExtendPair(a1, d, rf["rmsd_finaltest"], "test_y_aff", "test_y_predaff"),
                              d, rf["rmsd_finaltrain"], "train_y_aff", "train_y_predaff")
              ELSE a1
        a3 == IF two_data_sources /\ binary_class
              THEN ExtendPair(ExtendPair(a2, d, rf["auc_finaltest2"], "test2_y_true", "test2_y_score"),
                              d, rf["auc_finaltrain2"], "train2_y_true", "train2_y_score")
              ELSE a2
        a4 == IF two_data_sources /\ affinity
              THEN ExtendPair(ExtendPair(a3, d, rf["rmsd_finaltest2"], "test2_y_aff", "test2_y_predaff"),
                              d, rf["rmsd_finaltrain2"], "train2_y_aff", "train2_y_predaff")
              ELSE a3
    IN  a4

\* lines 277-302: the column index of each series, as col_idx advances
ColAuc == 0
\* ColAfterAuc that forgets the ignored train_loss column
ColAfterAucNoLoss(binary_class) == IF binary_class THEN ColAuc + 2 ELSE ColAuc

ColAfterAuc(binary_class) == IF binary_class THEN ColAuc + 3 ELSE ColAuc
ColRmsd(binary_class) == ColAfterAuc(binary_class) + 1
ColAfterRmsd(binary_class, affinity) ==
    IF affinity THEN ColRmsd(binary_class) + 2 ELSE ColRmsd(binary_class)
ColAuc2(binary_class, affinity) == ColAfterRmsd(binary_class, affinity)
ColRmsd2(binary_class, affinity) ==
    IF binary_class THEN ColAuc2(binary_class, affinity) + 3 ELSE ColAuc2(binary_class, affinity)

\* lines 274-302: the 'out' file of fold files rf
SliceColumns(a, cols, binary_class, affinity, two_data_sources) ==
    LET b1 == IF binary_class
              THEN AppendColumns(a, cols, ColAuc, "test_aucs", "train_aucs")
              ELSE a
        b2 == IF affinity
              THEN AppendColumns(b1, cols, ColRmsd(binary_class), "test_rmsds", "train_rmsds")
              ELSE b1
        b3 == IF two_data_sources /\ binary_class
              THEN AppendColumns(b2, cols, ColAuc2(binary_class, affinity),
                                 "test2_aucs", "train2_aucs")
              ELSE b2
        b4 == IF two_data_sources /\ affinity
              THEN AppendColumns(b3, cols, ColRmsd2(binary_class, affinity),
                                 "test2_rmsds", "train2_rmsds")
              ELSE b3
    IN  b4

SliceOut(a, r, binary_class, affinity, two_data_sources) ==
    IF r.err THEN [a EXCEPT !.err = TRUE]
    ELSE SliceColumns(a, r.cols, binary_class, affinity, two_data_sources)

ReadOut(a, d, rf, binary_class, affinity, two_data_sources) ==
    IF a.err THEN a
    ELSE SliceOut(a, read_results_file(d[rf["out"]]), binary_class, affinity, two_data_sources)

\* lines 241-302 for the files rf of one fold
ReadFoldFiles(a, d, rf, binary_class, affinity, two_data_sources) ==
    ReadOut(ReadFinals(a, d, rf, binary_class, affinity, two_data_sources),
            d, rf, binary_class, affinity, two_data_sources)

\* the loop moves on with the lists a, unless an exception ended the process (status 1)
FoldRead(a) ==
    IF a.err
    THEN /\ pc' = "exit"
         /\ exitcode' = 1
         /\ UNCHANGED <<acc, pending>>
    ELSE /\ acc' = a
         /\ pending' = Tail(pending)
         /\ pc' = IF Tail(pending) = <<>> THEN "combine" ELSE "read"
         /\ UNCHANGED exitcode

\* one iteration of the loop of line 239, for the next fold in dict order
ReadFold ==
    /\ pc = "read"
    /\ pending # <<>>
    /\ FoldRead(ReadFoldFiles(acc, disk, results_files[Head(pending)], BinaryClass(args),
                              Affinity(args), args.two_data_sources))
    /\ UNCHANGED <<args, disk, results_files, nextcall, calls, outputs, input, result>>

----------------------------------------------------------------------------
(* Numeric helpers of the combiner *)

Frac(sum, n) == [sum |-> sum, n |-> n]

\* Python 2 "a / b" on integers: floor division (b # 0)
PyFloorDiv(a, b) == IF b > 0 THEN a \div b ELSE (-a) \div (-b)

\* x[k:] with Python's slice rules: a negative k counts from the end, and both are clipped
PySliceFrom(x, k) ==
    SubSeq(x,
           1 + (IF k < 0
                THEN (IF Len(x) + k > 0 THEN Len(x) + k ELSE 0)
                ELSE (IF k < Len(x) THEN k ELSE Len(x))),
           Len(x))

SameLengths(series) == \A f, g \in 1..Len(series) : Len(series[f]) = Len(series[g])

\* the mean taken along the wrong axis: over the checkpoints of each fold
MeanAxis1(series) ==
    [f \in 1..Len(series) |-> Frac(SumSeq(series[f]), Len(series[f]))]

\* np.mean(series, axis=0) of equal-length series: the mean over folds at each checkpoint
MeanAxis0(series) ==
    [i \in 1..Len(series[1]) |->
        Frac(SumSeq([f \in 1..Len(series) |-> series[f][i]]), Len(series))]

\* lines 170, 179
LastIters == 1000

NoStatistics == [err |-> TRUE, window |-> <<>>, mean |-> Frac(0, 1), max |-> 0, min |-> 0]

\* line 35 on the flattened window: np.mean, np.max, np.min; np.max rejects an empty one
Statistics(flat) ==
    IF flat = <<>> THEN NoStatistics
    ELSE [err |-> FALSE, window |-> flat, mean |-> Frac(SumSeq(flat), Len(flat)),
          max |-> MaxOf(Range(flat)), min |-> MinOf(Range(flat))]

\* line 34: [x[-n_last_tests:] for x in test_aucs]
LastTests(test_aucs, n_last_tests) ==
    [f \in 1..Len(test_aucs) |-> PySliceFrom(test_aucs[f], -n_last_tests)]

\* lines 32-35; err for the ZeroDivisionError, and for np.max of an empty window
last_iters_statistics(test_aucs, test_interval, last_iters) ==
    IF test_interval = 0 THEN NoStatistics
    ELSE Statistics(Flatten(LastTests(test_aucs, PyFloorDiv(last_iters, test_interval))))

\* np.array(y_true, dtype=np.bool): a nonzero label is True
Truthy(v) == v # 0

RECURSIVE SelectWhere(_, _)
SelectWhere(values, mask) ==
    IF values = <<>> \/ mask = <<>> THEN <<>>
    ELSE (IF Truthy(Head(mask)) THEN <<Head(values)>> ELSE <<>>)
         \o SelectWhere(Tail(values), Tail(mask))

\* lines 113-114.  A mask as long as the values selects the entries at its true places.
\* A mask of another length is an IndexError in numpy from 1.13 on (strict); before, only a
\* true place past the end of the values is.
filter_actives(values, y_true, strict) ==
    IF Len(values) = Len(y_true) THEN [err |-> FALSE, vals |-> SelectWhere(values, y_true)]
    ELSE IF strict \/ \E i \in 1..Len(y_true) : i > Len(values) /\ Truthy(y_true[i])
    THEN [err |-> TRUE, vals |-> <<>>]
    ELSE [err |-> FALSE, vals |-> SelectWhere(values, y_true)]

----------------------------------------------------------------------------
(* Outputs.  A file name '<outprefix><pieces>' is the sequence of its pieces. *)

NoNote == [tag |-> "", window |-> <<>>, mean |-> Frac(0, 1), max |-> 0, min |-> 0]

\* lines 22-29: the rows are zip(*columns); the footer's numbers are not modelled
write_results_file(file, columns, footer) ==
    [name |-> file, kind |-> "table", data |-> ZipRows(columns),
     note |-> [NoNote EXCEPT !.tag = footer]]

\* lines 38-72: a plot of the given data, annotated with note
Plot(file, data, note) == [name |-> file, kind |-> "plot", data |-> data, note |-> note]

Metric(affinity) == IF affinity THEN "rmsd" ELSE "auc"
Two(second_data_source) == IF second_data_source THEN "2" ELSE ""

Done(written) == [err |-> FALSE, written |-> written, scored |-> <<>>]
Failed(written) == [err |-> TRUE, written |-> written, scored |-> <<>>]

\* r, then (unless r failed) s
Then(r, s) ==
    IF r.err THEN r
    ELSE [err |-> s.err, written |-> r.written \o s.written, scored |-> r.scored \o s.scored]

\* lines 139-143: the two tables, then the training plot, whose assertion needs mean
\* series of one length
WriteMeans(mean_test_metrics, mean_train_metrics, test_metrics, train_metrics, metric, two) ==
    Then(Done(<< write_results_file(<<".", metric, ".test", two>>,
                                    <<mean_test_metrics>> \o test_metrics, ""),
                 write_results_file(<<".", metric, ".train", two>>,
                                    <<mean_train_metrics>> \o train_metrics, "") >>),
         IF Len(mean_train_metrics) # Len(mean_test_metrics) THEN Failed(<<>>)
         ELSE Done(<<Plot(<<"_", metric, "_train", two, ".pdf">>,
                          <<mean_train_metrics, mean_test_metrics>>, NoNote)>>))

\* lines 131-143: np.mean fails on series of unequal length, before anything is written
MeanOutputs(test_metrics, train_metrics, metric, two) ==
    IF ~SameLengths(test_metrics) \/ ~SameLengths(train_metrics) THEN Failed(<<>>)
    ELSE WriteMeans(MeanAxis0(test_metrics), MeanAxis0(train_metrics),
                    test_metrics, train_metrics, metric, two)

\* lines 152-155 and 161-164: score, write the table, plot.  An empty selection is
\* rejected by mean_squared_error (strict_score), or else by np.min in plot_correlation,
\* after the table is written.
ScoreAndWrite(split, preds, labels, two, strict_score) ==
    IF Len(preds) # Len(labels) \/ (preds = <<>> /\ strict_score)
    THEN [err |-> TRUE, written |-> <<>>,
          scored |-> <<[split |-> split, two |-> two, preds |-> preds, labels |-> labels]>>]
    ELSE Then([err |-> FALSE,
               written |-> <<write_results_file(<<".rmsd.final", split, two>>,
                                                <<preds, labels>>, "RMSD,R^2")>>,
               scored |-> <<[split |-> split, two |-> two, preds |-> preds, labels |-> labels]>>],
              IF preds = <<>> THEN Failed(<<>>)
              ELSE Done(<<Plot(<<"_corr_", split, two, ".pdf">>, <<labels, preds>>, NoNote)>>))

\* lines 148-150 and 157-159 done: an IndexError of filter_actives ends the call
Filtered(split, fp, fl, two, strict_score) ==
    IF fp.err \/ fl.err THEN Failed(<<>>)
    ELSE ScoreAndWrite(split, fp.vals, fl.vals, two, strict_score)

\* AffinityOutputs that tests the filter as an array would be tested (any label nonzero)
\* rather than as a list (non-empty)
AffinityOutputsAny(split, preds, labels, filter, two, strict_index, strict_score) ==
    IF \E i \in 1..Len(filter) : Truthy(filter[i])
    THEN Filtered(split, filter_actives(preds, filter, strict_index),
                  filter_actives(labels, filter, strict_index), two, strict_score)
    ELSE ScoreAndWrite(split, preds, labels, two, strict_score)

\* lines 147-155 (split "test") and 157-164 (split "train")
AffinityOutputs(split, preds, labels, filter, two, strict_index, strict_score) ==
    IF filter # <<>>
    THEN Filtered(split, filter_actives(preds, filter, strict_index),
                  filter_actives(labels, filter, strict_index), two, strict_score)
    ELSE ScoreAndWrite(split, preds, labels, two, strict_score)

\* lines 172-176 and 181-185
WriteRoc(split, st, labels, preds, two) ==
    IF st.err THEN Failed(<<>>)
    ELSE Done(<< write_results_file(<<".auc.final", split, two>>, <<labels, preds>>, "AUC"),
                 Plot(<<"_roc_", split, two, ".pdf">>, <<labels, preds>>,
                      [tag |-> "last iterations", window |-> st.window,
                       mean |-> st.mean, max |-> st.max, min |-> st.min]) >>)

\* RocOutputs without the test for two distinct labels
RocOutputsUngated(split, metrics, labels, preds, test_interval, two) ==
    WriteRoc(split, last_iters_statistics(metrics, test_interval, LastIters), labels, preds, two)

\* lines 169-176 (split "test") and 178-185 (split "train")
RocOutputs(split, metrics, labels, preds, test_interval, two) ==
    IF Cardinality(Range(labels)) > 1
    THEN WriteRoc(split, last_iters_statistics(metrics, test_interval, LastIters),
                  labels, preds, two)
    ELSE Done(<<>>)

\* lines 117-185
combine_fold_results(test_metrics, train_metrics, test_labels, test_preds, train_labels, train_preds, test_interval, affinity, second_data_source, filter_actives_test, filter_actives_train, strict_index, strict_score) ==
    Then(MeanOutputs(test_metrics, train_metrics, Metric(affinity), Two(second_data_source)),
         IF affinity
         THEN Then(AffinityOutputs("test", test_preds, test_labels, filter_actives_test,
                                   Two(second_data_source), strict_index, strict_score),
                   AffinityOutputs("train", train_preds, train_labels, filter_actives_train,
                                   Two(second_data_source), strict_index, strict_score))
         ELSE Then(RocOutputs("test", test_metrics, test_labels, test_preds,
                              test_interval, Two(second_data_source)),
                   RocOutputs("train", train_metrics, train_labels, train_preds,
                              test_interval, Two(second_data_source))))

----------------------------------------------------------------------------
(* __main__: the four call sites of combine_fold_results, lines 304-321 *)

CallSites == 1..4

\* SiteActive with the second source's affinity call nested under "if binary_class"
SiteActiveNested(k, a) ==
    CASE k = 1 -> BinaryClass(a)
      [] k = 2 -> Affinity(a)
      [] k = 3 -> a.two_data_sources /\ BinaryClass(a)
      [] k = 4 -> a.two_data_sources /\ BinaryClass(a) /\ Affinity(a)

\* the guard of call site k
SiteActive(k, a) ==
    CASE k = 1 -> BinaryClass(a)
      [] k = 2 -> Affinity(a)
      [] k = 3 -> a.two_data_sources /\ BinaryClass(a)
      [] k = 4 -> a.two_data_sources /\ Affinity(a)

\* the call of site k on the lists ac
SiteCall(k, ac, a, strict_index, strict_score) ==
    CASE k = 1 ->
            combine_fold_results(ac.test_aucs, ac.train_aucs, ac.test_y_true, ac.test_y_score,
                                 ac.train_y_true, ac.train_y_score, a.test_interval,
                                 FALSE, FALSE, <<>>, <<>>, strict_index, strict_score)
      [] k = 2 ->
            combine_fold_results(ac.test_rmsds, ac.train_rmsds, ac.test_y_aff, ac.test_y_predaff,
                                 ac.train_y_aff, ac.train_y_predaff, a.test_interval,
                                 TRUE, FALSE, ac.test_y_true, ac.train_y_true,
                                 strict_index, strict_score)
      [] k = 3 ->
            combine_fold_results(ac.test2_aucs, ac.train2_aucs, ac.test2_y_true, ac.test2_y_score,
                                 ac.train2_y_true, ac.train2_y_score, a.test_interval,
                                 FALSE, TRUE, <<>>, <<>>, strict_index, strict_score)
      [] k = 4 ->
            combine_fold_results(ac.test2_rmsds, ac.train2_rmsds, ac.test2_y_aff,
                                 ac.test2_y_predaff, ac.train2_y_aff, ac.train2_y_predaff,
                                 a.test_interval, TRUE, TRUE, ac.test2_y_true, ac.train2_y_true,
                                 strict_index, strict_score)

\* the call sites at or after k whose guard holds
SitesFrom(k, a) == {j \in CallSites : j >= k /\ SiteActive(j, a)}

\* the numpy and scikit-learn behaviours a build may have (strict_index, strict_score):
\* only the affinity branch depends on them
LibraryBuilds(k) == IF k \in {2, 4} THEN BOOLEAN \X BOOLEAN ELSE {<<TRUE, TRUE>>}

\* the effect of the call r of site k
Combined(k, r) ==
    /\ calls' = Append(calls, [site |-> k, affinity |-> k \in {2, 4},
                               second_data_source |-> k \in {3, 4},
                               scored |-> r.scored, err |-> r.err])
    /\ outputs' = outputs \o r.written
    /\ nextcall' = k + 1
    /\ IF r.err
       THEN pc' = "exit" /\ exitcode' = 1
       ELSE UNCHANGED <<pc, exitcode>>

\* the next call of combine_fold_results: its outputs are written in order; an exception
\* in it is uncaught and ends the process with status 1
Combine ==
    /\ pc = "combine"
    /\ SitesFrom(nextcall, args) # {}
    /\ \E lib \in LibraryBuilds(MinOf(SitesFrom(nextcall, args))) :
            Combined(MinOf(SitesFrom(nextcall, args)),
                     SiteCall(MinOf(SitesFrom(nextcall, args)), acc, args, lib[1], lib[2]))
    /\ UNCHANGED <<args, disk, results_files, pending, acc, input, result>>

\* the end of the script: exit status 0
Finish ==
    /\ pc = "combine"
    /\ SitesFrom(nextcall, args) = {}
    /\ pc' = "exit"
    /\ exitcode' = 0
    /\ UNCHANGED <<args, disk, results_files, pending, acc, nextcall, calls, outputs,
                   input, result>>

Next == Locate \/ ReadFold \/ Combine \/ Finish

----------------------------------------------------------------------------
(* The inputs of a run: command line and files *)

Folds == 0..MaxFold

IndexOf(seq, x) == CHOOSE i \in 1..Len(seq) : seq[i] = x

\* line 274: the columns training writes to an 'out' file, by the active features
LayoutNames(binary_class, affinity, two_data_sources) ==
    (IF binary_class THEN <<"test_auc", "train_auc", "train_loss">> ELSE <<>>)
    \o <<"learning_rate">>
    \o (IF affinity THEN <<"test_rmsd", "train_rmsd">> ELSE <<>>)
    \o (IF two_data_sources /\ binary_class
        THEN <<"test2_auc", "train2_auc", "train2_loss">> ELSE <<>>)
    \o (IF two_data_sources /\ affinity THEN <<"test2_rmsd", "train2_rmsd">> ELSE <<>>)

ColumnNames == LayoutNames(TRUE, TRUE, TRUE)

FinalSuffixes ==
    <<"auc.finaltest", "auc.finaltrain", "rmsd.finaltest", "rmsd.finaltrain",
      "auc.finaltest2", "auc.finaltrain2", "rmsd.finaltest2", "rmsd.finaltrain2">>

\* a number that tells its column (code), fold and row
Value(code, f, r) == 100 * code + 10 * f + r

\* the 'out' file of fold f: len checkpoints of the columns names
OutLines(names, f, len) ==
    [r \in 1..len |-> NumLine([c \in 1..Len(names) |-> Value(IndexOf(ColumnNames, names[c]), f, r)])]

\* a '.auc.final*' file: one line "label score" per example
AucLines(suffix, f, labels) ==
    [r \in 1..Len(labels) |->
        NumLine(<<labels[r], Value(20 + IndexOf(FinalSuffixes, suffix), f, r)>>)]

\* a '.rmsd.final*' file: one line "affinity predicted" per example
RmsdLines(suffix, f, rows) ==
    [r \in 1..rows |->
        NumLine(<<Value(30 + IndexOf(FinalSuffixes, suffix), f, r),
                  Value(40 + IndexOf(FinalSuffixes, suffix), f, r)>>)]

\* how the labels of the other three classification files relate to those of auc.finaltest
Variants == {"same", "flip", "zero", "mix"}
VariedSuffixes == {"auc.finaltrain", "auc.finaltest2", "auc.finaltrain2"}

Variant(train, test2, train2) ==
    [sfx \in VariedSuffixes |->
        IF sfx = "auc.finaltrain" THEN train ELSE IF sfx = "auc.finaltest2" THEN test2 ELSE train2]

LabelsOf(suffix, f, labels, variant) ==
    IF suffix \notin VariedSuffixes \/ variant[suffix] = "same" THEN labels
    ELSE IF variant[suffix] = "flip" THEN [r \in 1..Len(labels) |-> 1 - labels[r]]
    ELSE IF variant[suffix] = "mix" THEN [r \in 1..Len(labels) |-> (f + r) % 2]
    ELSE [r \in 1..Len(labels) |-> 0]

\* the well-formed content of file (f, suffix)
FileLines(cfg, f, suffix, labels, variant, len) ==
    IF suffix = "out" THEN OutLines(LayoutNames(cfg.binary_class, cfg.affinity, cfg.two), f, len)
    ELSE IF suffix \in {"auc.finaltest", "auc.finaltrain", "auc.finaltest2", "auc.finaltrain2"}
    THEN AucLines(suffix, f, LabelsOf(suffix, f, labels, variant))
    ELSE IF suffix \in PatternSuffixes THEN RmsdLines(suffix, f, Len(labels))
    ELSE <<>>

DefectKinds == {"empty", "comment", "text", "short_row", "long_row", "extra_row", "narrow"}

DropLast(line) == SubSeq(line, 1, Len(line) - 1)

\* a file damaged (or, for "comment", merely annotated) in one way
Damage(kind, lines) ==
    LET n == Len(lines)
    IN  CASE kind = "empty" -> <<>>
          [] kind = "comment" -> <<<<Hash, Text>>>> \o [lines EXCEPT ![n] = @ \o <<Hash, Text>>]
          [] kind = "text" -> [lines EXCEPT ![n] = DropLast(@) \o <<Text>>]
          [] kind = "short_row" -> [lines EXCEPT ![n] = DropLast(@)]
          [] kind = "long_row" -> [lines EXCEPT ![n] = @ \o <<Num(7)>>]
          [] kind = "extra_row" -> Append(lines, lines[n])
          [] kind = "narrow" -> [i \in 1..n |-> DropLast(lines[i])]
          [] OTHER -> lines

NoDefect == [fold |-> 0, suffix |-> "", kind |-> "none"]

\* the files of the run: present[f] are the suffixes that exist for fold f
MakeDisk(cfg, present, labels, variant, len, defect) ==
    [p \in {Path(f, sfx) : f \in DOMAIN present, sfx \in PatternSuffixes \cup {"other"}}
           \cap UNION {{Path(f, sfx) : sfx \in present[f]} : f \in DOMAIN present} |->
        LET lines == FileLines(cfg, p.fold, p.suffix, labels[p.fold], variant, len[p.fold])
        IN  IF defect.kind # "none" /\ defect.fold = p.fold /\ defect.suffix = p.suffix
            THEN Damage(defect.kind, lines)
            ELSE lines]

\* -t/--test_interval default, line 196
DefaultInterval == 40

\* the flag combinations of the command line
Flags == [affinity : BOOLEAN, affinity_only : BOOLEAN, two_data_sources : BOOLEAN]

Config(fl) == [binary_class |-> ~fl.affinity_only,
               affinity |-> fl.affinity \/ fl.affinity_only,
               two |-> fl.two_data_sources]

Args(fl, foldnums, test_interval) ==
    [foldnums |-> foldnums, affinity |-> fl.affinity, affinity_only |-> fl.affinity_only,
     two_data_sources |-> fl.two_data_sources, test_interval |-> test_interval]

Start(a, d) ==
    /\ pc = "start"
    /\ args = a
    /\ disk = d
    /\ results_files = EmptyFn
    /\ pending = <<>>
    /\ acc = EmptyAcc
    /\ nextcall = 1
    /\ calls = <<>>
    /\ outputs = <<>>
    /\ exitcode = -1
    /\ input = <<>>
    /\ result = <<>>

BaseLabels == <<0, 1>>
BaseVariant == Variant("same", "same", "same")
FoldSets == (SUBSET Folds) \ {{}}

\* Directories: every fold is complete but one, which may be complete, absent, or lack any
\* one file; the fold list is discovered or given
PresenceMenu ==
    {{}, {"other"}, {"out"}, PatternSuffixes, PatternSuffixes \cup {"other"}}
    \cup {PatternSuffixes \ {sfx} : sfx \in PatternSuffixes}

FoldnumsMenu ==
    {NoFoldnums, Foldnums(<<>>), Foldnums(<<Num(0)>>), Foldnums(<<Num(MaxFold)>>),
     Foldnums(<<Num(0), Num(MaxFold)>>), Foldnums(<<Num(MaxFold), Empty, Num(0)>>),
     Foldnums(<<Num(0), Text>>)}

InitDirs ==
    \E fl \in Flags, fn \in FoldnumsMenu, d \in Folds, some \in PresenceMenu :
        Start(Args(fl, fn, DefaultInterval),
              MakeDisk(Config(fl), [f \in Folds |-> IF f = d THEN some ELSE PatternSuffixes],
                       [f \in Folds |-> BaseLabels], BaseVariant,
                       [f \in Folds |-> MaxLen], NoDefect))

\* Labels: complete folds whose classification labels vary
\* one or two examples per fold; the other label sequences arise as variants
LabelSeqs == {<<0>>, <<1>>, <<0, 0>>, <<0, 1>>}

VariantMenu ==
    {Variant("same", "same", "same"), Variant("flip", "zero", "mix"),
     Variant("zero", "mix", "flip"), Variant("mix", "flip", "zero")}

InitLabels ==
    \E fl \in {x \in Flags : ~x.affinity_only}, S \in FoldSets :
    \E labels \in [S -> LabelSeqs], variant \in VariantMenu :
        Start(Args(fl, NoFoldnums, DefaultInterval),
              MakeDisk(Config(fl), [f \in S |-> PatternSuffixes], labels, variant,
                       [f \in S |-> MaxLen], NoDefect))

\* Series: complete folds whose numbers of checkpoints vary, under any test interval
TestIntervals == {-1000, 0, DefaultInterval, 500, 1000, 1001}

InitSeries ==
    \E fl \in Flags, S \in FoldSets, ti \in TestIntervals :
    \E len \in [S -> 1..MaxLen] :
        Start(Args(fl, NoFoldnums, ti),
              MakeDisk(Config(fl), [f \in S |-> PatternSuffixes], [f \in S |-> BaseLabels],
                       BaseVariant, len, NoDefect))

\* Defects: complete folds, one file of which is damaged
InitDefects ==
    \E fl \in Flags, kind \in DefectKinds, sfx \in PatternSuffixes, f \in Folds :
        Start(Args(fl, NoFoldnums, DefaultInterval),
              MakeDisk(Config(fl), [g \in Folds |-> PatternSuffixes],
                       [g \in Folds |-> BaseLabels], BaseVariant, [g \in Folds |-> MaxLen],
                       [fold |-> f, suffix |-> sfx, kind |-> kind]))

Init == InitDirs \/ InitLabels \/ InitSeries \/ InitDefects

Spec == Init /\ [][Next]_vars

----------------------------------------------------------------------------
(* Properties of fold location (get_results_files and lines 211-219) *)

\* the role names with '_' replaced by '.'
RoleSuffix ==
    [out |-> "out",
     auc_finaltest |-> "auc.finaltest", auc_finaltrain |-> "auc.finaltrain",
     rmsd_finaltest |-> "rmsd.finaltest", rmsd_finaltrain |-> "rmsd.finaltrain",
     auc_finaltest2 |-> "auc.finaltest2", auc_finaltrain2 |-> "auc.finaltrain2",
     rmsd_finaltest2 |-> "rmsd.finaltest2", rmsd_finaltrain2 |-> "rmsd.finaltrain2"]

WantClassification == ~args.affinity_only
WantAffinity == args.affinity \/ args.affinity_only
WantSecondSource == args.two_data_sources

\* the roles the flags ask for
WantedRoles ==
    {"out"}
    \cup (IF WantClassification THEN {"auc_finaltest", "auc_finaltrain"} ELSE {})
    \cup (IF WantAffinity THEN {"rmsd_finaltest", "rmsd_finaltrain"} ELSE {})
    \cup (IF WantSecondSource /\ WantClassification
          THEN {"auc_finaltest2", "auc_finaltrain2"} ELSE {})
    \cup (IF WantSecondSource /\ WantAffinity
          THEN {"rmsd_finaltest2", "rmsd_finaltrain2"} ELSE {})

\* get_results_files has returned normally
FilesLocated == pc \in {"read", "combine"} \/ (pc = "exit" /\ results_files # EmptyFn)

\* the fold specification is one the fold set is defined for
FoldsResolvable == args.foldnums.none \/ ~IntFails(args.foldnums.toks)

\* C1: the file set get_results_files builds has one entry per fold of the resolved fold
\* set, and each entry holds exactly the roles the flags ask for ('out' always, the auc
\* pair iff classification, the rmsd pair iff affinity, the '2' variant of each included
\* pair iff second source), each mapped to the path <prefix>.<fold>.<role with '.'>.
C1_RolesAndPaths ==
    FilesLocated =>
        /\ DOMAIN results_files = ResolveFolds(disk, args.foldnums)
        /\ \A i \in DOMAIN results_files :
              /\ DOMAIN results_files[i] = WantedRoles
              /\ \A role \in WantedRoles : results_files[i][role] = Path(i, RoleSuffix[role])

\* a joint two-source run whose files were located for at least two folds
C1_Witness ==
    /\ FilesLocated
    /\ args.affinity /\ ~args.affinity_only /\ args.two_data_sources
    /\ Cardinality(DOMAIN results_files) >= 2
    /\ \A i \in DOMAIN results_files : Cardinality(DOMAIN results_files[i]) = 9

\* the paths the resolved folds need under the flags
NeededPaths ==
    {Path(i, RoleSuffix[role]) : i \in ResolveFolds(disk, args.foldnums), role \in WantedRoles}

\* C2: once fold location is over, an empty resolved fold set or a missing needed file
\* has ended the run with exit code 1 and without any combine invocation (no fold is
\* skipped); and whenever get_results_files returned normally every path of every fold's
\* file set exists.
C2_MissingIsFatal ==
    /\ (pc # "start" /\ FoldsResolvable
            /\ (ResolveFolds(disk, args.foldnums) = {}
                 \/ \E path \in NeededPaths : path \notin DOMAIN disk))
          => (pc = "exit" /\ exitcode = 1 /\ calls = <<>> /\ outputs = <<>>)
    /\ FilesLocated =>
          \A i \in DOMAIN results_files : \A role \in DOMAIN results_files[i] :
              results_files[i][role] \in DOMAIN disk

\* a run that ended with status 1 because one fold lacks a needed file while another
\* fold is complete
C2_Witness ==
    /\ pc = "exit" /\ exitcode = 1 /\ calls = <<>>
    /\ FoldsResolvable
    /\ \E i, j \in ResolveFolds(disk, args.foldnums) :
          /\ \E role \in WantedRoles : Path(i, RoleSuffix[role]) \notin DOMAIN disk
          /\ \A role \in WantedRoles : Path(j, RoleSuffix[role]) \in DOMAIN disk

----------------------------------------------------------------------------
(* Properties of the read loop and the call sites *)

\* the folds read so far, in loop order
FoldsRead ==
    IF FilesLocated
    THEN SubSeq(DictOrder(results_files), 1, Cardinality(DOMAIN results_files) - Len(pending))
    ELSE <<>>

\* the per-fold list each series of the layout is appended to; train_loss, learning_rate
\* and train2_loss have none
SeriesList ==
    [test_auc |-> "test_aucs", train_auc |-> "train_aucs",
     test_rmsd |-> "test_rmsds", train_rmsd |-> "train_rmsds",
     test2_auc |-> "test2_aucs", train2_auc |-> "train2_aucs",
     test2_rmsd |-> "test2_rmsds", train2_rmsd |-> "train2_rmsds"]

\* the layout of the 'out' files of this run
RunLayout == LayoutNames(WantClassification, WantAffinity, WantSecondSource)

\* the series of the layout that have a per-fold list
ExtractedNames == Range(RunLayout) \cap DOMAIN SeriesList

\* the columns of the 'out' files of the given folds, as parsed
OutColumns(folds) == [k \in 1..Len(folds) |-> read_results_file(disk[Path(folds[k], "out")]).cols]

\* every list holds, per fold, the column at its layout position; the others are empty
ListsFollowLayout(folds, columns) ==
    \A name \in DOMAIN SeriesList :
        IF name \in ExtractedNames
        THEN /\ Len(acc[SeriesList[name]]) = Len(folds)
             /\ \A k \in 1..Len(folds) :
                   acc[SeriesList[name]][k] = columns[k][IndexOf(RunLayout, name)]
        ELSE acc[SeriesList[name]] = <<>>

\* C4: each per-fold list holds exactly one series per fold read, which is the column of
\* that fold's 'out' file at the index the fixed layout [test_auc, train_auc, train_loss],
\* [learning_rate], [test_rmsd, train_rmsd], [test2_auc, train2_auc, train2_loss],
\* [test2_rmsd, train2_rmsd] (each group if active) gives the series; train_loss,
\* learning_rate and train2_loss are in no list, and the lists of inactive series are empty.
C4_ColumnsFollowLayout == ListsFollowLayout(FoldsRead, OutColumns(FoldsRead))

\* a joint two-source run that has read the 'out' files of at least two folds
C4_Witness ==
    /\ pc = "combine"
    /\ args.affinity /\ ~args.affinity_only /\ args.two_data_sources
    /\ Len(acc.test2_rmsds) >= 2
    /\ acc.test2_rmsds[1] # acc.test_rmsds[1]

\* the (affinity, second source) combinations the flags make active, in call order
ActiveCombinations ==
    (IF WantClassification THEN <<<<FALSE, FALSE>>>> ELSE <<>>)
    \o (IF WantAffinity THEN <<<<TRUE, FALSE>>>> ELSE <<>>)
    \o (IF WantSecondSource /\ WantClassification THEN <<<<FALSE, TRUE>>>> ELSE <<>>)
    \o (IF WantSecondSource /\ WantAffinity THEN <<<<TRUE, TRUE>>>> ELSE <<>>)

\* C5: in a run that ended with status 0 the combiner was invoked exactly once for each
\* active (metric family, data source) combination and for no other, in the order
\* classification/source1, affinity/source1, classification/source2, affinity/source2;
\* the invocations number between 1 and 4.
C5_OneCallPerCombination ==
    (pc = "exit" /\ exitcode = 0) =>
        /\ [k \in 1..Len(calls) |-> <<calls[k].affinity, calls[k].second_data_source>>]
              = ActiveCombinations
        /\ Len(calls) \in 1..4

\* a successful joint two-source run: four invocations
C5_Witness == pc = "exit" /\ exitcode = 0 /\ Len(calls) = 4

----------------------------------------------------------------------------
(* Properties of combine_fold_results *)

\* the per-fold list of series passed to an invocation for a split
ListName(affinity, second, split) ==
    IF split = "test"
    THEN (IF second THEN (IF affinity THEN "test2_rmsds" ELSE "test2_aucs")
                    ELSE (IF affinity THEN "test_rmsds" ELSE "test_aucs"))
    ELSE (IF second THEN (IF affinity THEN "train2_rmsds" ELSE "train2_aucs")
                    ELSE (IF affinity THEN "train_rmsds" ELSE "train_aucs"))

\* '<outPrefix>.<metric>.<split>[2]'
MeanTableName(affinity, second, split) ==
    <<".", IF affinity THEN "rmsd" ELSE "auc", IF split = "test" THEN ".test" ELSE ".train",
      IF second THEN "2" ELSE "">>

\* rows (mean over folds, fold 1, ..., fold N) for each checkpoint of equal-length series
MeanTable(series) ==
    [i \in 1..Len(series[1]) |->
        <<Frac(SumSeq([f \in 1..Len(series) |-> series[f][i]]), Len(series))>>
        \o [f \in 1..Len(series) |-> series[f][i]]]

Written(name) == \E j \in 1..Len(outputs) : outputs[j].name = name

Splits == {"test", "train"}

\* the mean table of an invocation and split, if written, is MeanTable of its series
MeanTableRight(affinity, second, split, series) ==
    \A j \in 1..Len(outputs) :
        outputs[j].name = MeanTableName(affinity, second, split) =>
            /\ Len(outputs[j].data) = Len(series[1])
            /\ \A i \in 1..Len(outputs[j].data) : Len(outputs[j].data[i]) = Len(series) + 1
            /\ outputs[j].data = MeanTable(series)

\* C8: for N >= 1 folds whose per-fold series all have the same length L, the table an
\* invocation writes to '<outPrefix>.<metric>.test[2]' (and '.train[2]') is written and
\* has exactly L rows and N+1 columns, row i being (mean over folds of series[f][i],
\* series[1][i], ..., series[N][i]).
C8_MeanTable ==
    \A k \in 1..Len(calls) :
        (/\ SameLengths(acc[ListName(calls[k].affinity, calls[k].second_data_source, "test")])
         /\ SameLengths(acc[ListName(calls[k].affinity, calls[k].second_data_source, "train")]))
        => \A split \in Splits :
              /\ Written(MeanTableName(calls[k].affinity, calls[k].second_data_source, split))
              /\ MeanTableRight(calls[k].affinity, calls[k].second_data_source, split,
                                acc[ListName(calls[k].affinity, calls[k].second_data_source,
                                             split)])

\* the second source's affinity mean table written for at least two folds of at least two
\* checkpoints
C8_Witness ==
    \E j \in 1..Len(outputs) :
        /\ outputs[j].name = MeanTableName(TRUE, TRUE, "train")
        /\ Len(outputs[j].data) >= 2
        /\ Len(outputs[j].data[1]) >= 3
        /\ outputs[j].data[1][2] # outputs[j].data[1][3]

\* the last n entries of x: none for n = 0, all of x for n >= Len(x)
TrailingWindow(x, n) == SubSeq(x, (IF Len(x) > n THEN Len(x) - n ELSE 0) + 1, Len(x))

\* '<outPrefix>_roc_<split>[2].pdf'
RocPlotName(second, split) == <<"_roc_", split, IF second THEN "2" ELSE "", ".pdf">>

\* the annotation of a ROC plot summarises exactly the trailing windows of series
WindowRight(second, split, series) ==
    \A j \in 1..Len(outputs) :
        outputs[j].name = RocPlotName(second, split) =>
            outputs[j].note.window =
                Flatten([f \in 1..Len(series) |->
                            TrailingWindow(series[f], 1000 \div args.test_interval)])

\* C9: for a positive test_interval, the trailing-window summary annotated on a ROC plot
\* is taken over exactly the last floor(1000 / test_interval) checkpoints of each fold's
\* series, flattened across folds: no checkpoints when test_interval exceeds 1000, the
\* whole series when it is shorter than the window.
C9_TrailingWindow ==
    (pc # "start" /\ args.test_interval > 0) =>
        \A second \in BOOLEAN, split \in Splits :
            WindowRight(second, split, acc[ListName(FALSE, second, split)])

\* the pooled list of classification labels of a source and split
ClassLabels(second, split) ==
    IF split = "test" THEN (IF second THEN acc.test2_y_true ELSE acc.test_y_true)
    ELSE (IF second THEN acc.train2_y_true ELSE acc.train_y_true)

\* the pooled affinity predictions and affinity labels of a source and split
AffPreds(second, split) ==
    IF split = "test" THEN (IF second THEN acc.test2_y_predaff ELSE acc.test_y_predaff)
    ELSE (IF second THEN acc.train2_y_predaff ELSE acc.train_y_predaff)

AffLabels(second, split) ==
    IF split = "test" THEN (IF second THEN acc.test2_y_aff ELSE acc.test_y_aff)
    ELSE (IF second THEN acc.train2_y_aff ELSE acc.train_y_aff)

\* the entries of values at the given indices, in ascending index order
AtIndices(values, idx) == [k \in 1..Len(idx) |-> values[idx[k]]]

\* the indices of values at which the label is nonzero
ActiveIndices(values, labels) ==
    Ascending({i \in 1..Len(values) : i <= Len(labels) /\ labels[i] # 0})

\* what a joint run is to score: the entries at the active indices; an affinity-only run:
\* all entries
ToScore(values, second, split) ==
    IF WantClassification
    THEN AtIndices(values, ActiveIndices(values, ClassLabels(second, split)))
    ELSE values

\* '<outPrefix>.rmsd.final<split>[2]'
AffinityTableName(second, split) == <<".rmsd.final", split, IF second THEN "2" ELSE "">>

Pairs(first, second) == [i \in 1..Len(first) |-> <<first[i], second[i]>>]

\* what one affinity invocation scored and wrote for one split is (preds, labels)
ScoredRight(call, second, split, preds, labels) ==
    /\ \A e \in 1..Len(call.scored) :
          call.scored[e].split = split => (call.scored[e].preds = preds
                                           /\ call.scored[e].labels = labels)
    /\ \A j \in 1..Len(outputs) :
          outputs[j].name = AffinityTableName(second, split) =>
              outputs[j].data = Pairs(preds, labels)

\* C6: in a joint run, what an affinity invocation scores and writes to
\* '<outPrefix>.rmsd.final<split>[2]' for a source and split are the pooled predictions
\* and labels at exactly the indices where the pooled classification label of the same
\* source and split is nonzero, in order and index-aligned, also when every label is
\* zero; in an affinity-only run all pooled entries are scored; an invocation that does
\* not fail has scored both splits.
C6_ActivesScored ==
    \A k \in 1..Len(calls) :
        calls[k].affinity =>
            /\ \A split \in Splits :
                  ScoredRight(calls[k], calls[k].second_data_source, split,
                              ToScore(AffPreds(calls[k].second_data_source, split),
                                      calls[k].second_data_source, split),
                              ToScore(AffLabels(calls[k].second_data_source, split),
                                      calls[k].second_data_source, split))
            /\ ~calls[k].err => Len(calls[k].scored) = 2

\* a joint run whose second-source affinity invocation scored some but not all of the
\* pooled training entries
C6_Witness ==
    /\ WantClassification
    /\ \E k \in 1..Len(calls) :
          /\ calls[k].affinity /\ calls[k].second_data_source /\ ~calls[k].err
          /\ calls[k].scored[2].preds # <<>>
          /\ Len(calls[k].scored[2].preds) < Len(acc.train2_y_predaff)
          /\ Written(AffinityTableName(TRUE, "train"))

\* '<outPrefix>.auc.final<split>[2]'
RocTableName(second, split) == <<".auc.final", split, IF second THEN "2" ELSE "">>

\* '<outPrefix>_<metric>_train[2].pdf'
TrainingPlotName(affinity, second) ==
    <<"_", IF affinity THEN "rmsd" ELSE "auc", "_train", IF second THEN "2" ELSE "", ".pdf">>

Distinct(labels) == Cardinality(Range(labels))

\* the ROC table and plot of a split are both written iff its labels have two distinct
\* values, and neither otherwise
RocGated(second, split) ==
    IF Distinct(ClassLabels(second, split)) >= 2
    THEN Written(RocTableName(second, split)) /\ Written(RocPlotName(second, split))
    ELSE ~Written(RocTableName(second, split)) /\ ~Written(RocPlotName(second, split))

MeansWritten(affinity, second) ==
    /\ Written(MeanTableName(affinity, second, "test"))
    /\ Written(MeanTableName(affinity, second, "train"))
    /\ Written(TrainingPlotName(affinity, second))

\* C7 as stated, for every classification invocation: per split the ROC table and plot
\* are written iff the pooled labels have at least two distinct values, the mean tables
\* and training plot are written in either case, and an invocation whose splits are both
\* skipped does not fail.
C7_GatingAlways ==
    \A k \in 1..Len(calls) :
        ~calls[k].affinity =>
            /\ \A split \in Splits : RocGated(calls[k].second_data_source, split)
            /\ MeansWritten(FALSE, calls[k].second_data_source)
            /\ (\A split \in Splits :
                    Distinct(ClassLabels(calls[k].second_data_source, split)) < 2)
                  => ~calls[k].err

\* the per-fold series of a classification invocation can be averaged and windowed
Combinable(second) ==
    /\ args.test_interval > 0
    /\ SameLengths(acc[ListName(FALSE, second, "test")])
    /\ SameLengths(acc[ListName(FALSE, second, "train")])

\* C7, amended: in a classification invocation whose per-fold series have equal lengths,
\* with a positive test_interval (labels being 0 or 1), per split the ROC table and plot
\* are both written iff the split's pooled labels have at least two distinct values and
\* neither otherwise; the invocation does not fail, one split's skip does not suppress
\* the other's outputs, and the mean tables and training plot are written in either case.
C7_GatingWhenCombinable ==
    \A k \in 1..Len(calls) :
        (~calls[k].affinity /\ Combinable(calls[k].second_data_source)) =>
            /\ \A split \in Splits : RocGated(calls[k].second_data_source, split)
            /\ MeansWritten(FALSE, calls[k].second_data_source)
            /\ ~calls[k].err

\* a classification invocation that skipped the test split and wrote the train split's
\* ROC table and plot
C7_Witness ==
    \E k \in 1..Len(calls) :
        /\ ~calls[k].affinity /\ Combinable(calls[k].second_data_source)
        /\ Distinct(ClassLabels(calls[k].second_data_source, "test")) < 2
        /\ ~Written(RocTableName(calls[k].second_data_source, "test"))
        /\ Written(RocTableName(calls[k].second_data_source, "train"))
        /\ Written(RocPlotName(calls[k].second_data_source, "train"))

\* C3: every input file is read before the first output is written, and a run that
\* ends with a fatal error has written no output.
C3_NoOutputOnFailure ==
    /\ outputs # <<>> => (pc \in {"combine", "exit"} /\ pending = <<>>)
    /\ (pc = "exit" /\ exitcode = 1) => outputs = <<>>

----------------------------------------------------------------------------
(* Specification of read_results_file alone: any small file is read once *)

ReadTokens == {Num(1), Num(2), Text, Hash}
ReadLines == SeqsUpTo(ReadTokens, MaxFields)
ReadFiles == SeqsUpTo(ReadLines, MaxLines)

Idle ==
    /\ args = <<>>
    /\ disk = EmptyFn
    /\ results_files = EmptyFn
    /\ pending = <<>>
    /\ acc = EmptyAcc
    /\ nextcall = 1
    /\ calls = <<>>
    /\ outputs = <<>>
    /\ exitcode = -1

InitRead ==
    /\ Idle
    /\ pc = "call"
    /\ input \in ReadFiles
    /\ result = [err |-> FALSE, cols |-> <<>>]

ReadFile ==
    /\ pc = "call"
    /\ result' = read_results_file(input)
    /\ pc' = "return"
    /\ UNCHANGED <<pipevars, input>>

NextRead == ReadFile

SpecRead == InitRead /\ [][NextRead]_vars

Rectangular(data) == \A i, j \in 1..Len(data) : Len(data[i]) = Len(data[j])

\* C10: read_results_file fails whenever the data lines are ragged or hold a
\* field that is not a float (it never returns truncated columns).
C10_RaggedOrBadFieldFails ==
    pc = "return" =>
        LET data == DataLines(input)
        IN  (~Rectangular(data) \/ \E i \in 1..Len(data) : FloatFails(data[i]))
                => result.err

====
